---- MODULE Spec2Model ----
(***************************************************************************)
(* A model of the Document Model of j (object.go): Thought.Marshal,        *)
(* Thought.Unmarshal, Meta.Update, FrontMatter.UnmarshalYAML and           *)
(* Thought.Mutate; and of its Action Queue (queue.go): NewQueue,           *)
(* Queue.Enqueue and Queue.Dequeue, which the tests call RunNext.          *)
(*                                                                         *)
(* Byte slices are sequences of one-character strings, so that the byte    *)
(* operations of the code (bytes.SplitN, bytes.TrimRight, bytes.Join) are  *)
(* computed on the same data the program sees.  A Go slice that may be nil *)
(* ([]string) is a record [isNil, elems].                                  *)
(***************************************************************************)
EXTENDS Integers, Sequences, FiniteSets, TLC

(***************************************************************************)
(* Literals of object.go.                                                  *)
(***************************************************************************)
NL == <<"\n">>
SEP == <<"-", "-", "-", "\n">>
K_class == <<"c", "l", "a", "s", "s">>
K_tags == <<"t", "a", "g", "s">>
K_pending_review == <<"p", "e", "n", "d", "i", "n", "g", "_", "r", "e", "v", "i", "e", "w">>
C_thought == <<"t", "h", "o", "u", "g", "h", "t">>

(***************************************************************************)
(* Package bytes.                                                          *)
(***************************************************************************)
HasPrefixAt(s, i, p) ==
    /\ i + Len(p) - 1 <= Len(s)
    /\ \A k \in 1..Len(p) : s[i + k - 1] = p[k]

RECURSIVE IndexFrom(_, _, _)
IndexFrom(s, sep, i) ==
    IF i + Len(sep) - 1 > Len(s) THEN 0
    ELSE IF HasPrefixAt(s, i, sep) THEN i
    ELSE IndexFrom(s, sep, i + 1)

\* bytes.Index: the 1-based position of the first occurrence of sep, 0 if none
Index(s, sep) == IndexFrom(s, sep, 1)

Min(a, b) == IF a < b THEN a ELSE b

RECURSIVE genSplit(_, _, _)
genSplit(s, sep, n) ==
    IF n <= 1 THEN <<s>>
    ELSE LET m == Index(s, sep)
         IN  IF m = 0 THEN <<s>>
             ELSE <<SubSeq(s, 1, m - 1)>>
                    \o genSplit(SubSeq(s, m + Len(sep), Len(s)), sep, n - 1)

\* bytes.SplitN(s, sep, n) for n > 0 and a non-empty sep
SplitN(s, sep, n) == genSplit(s, sep, Min(n, Len(s) + 1))

RECURSIVE TrimRight(_, _)
TrimRight(s, cutset) ==
    IF s # <<>> /\ s[Len(s)] \in cutset
    THEN TrimRight(SubSeq(s, 1, Len(s) - 1), cutset)
    ELSE s

RECURSIVE TrimLeft(_, _)
TrimLeft(s, cutset) ==
    IF s # <<>> /\ s[1] \in cutset
    THEN TrimLeft(Tail(s), cutset)
    ELSE s

RECURSIVE Join(_, _)
Join(parts, sep) ==
    IF parts = <<>> THEN <<>>
    ELSE IF Len(parts) = 1 THEN parts[1]
    ELSE parts[1] \o sep \o Join(Tail(parts), sep)

(***************************************************************************)
(* gopkg.in/yaml.v2, as far as object.go uses it: scalars are plain or     *)
(* double-quoted words of letters, digits, "-" and "_"; a document is      *)
(* empty or a block mapping "key: value" whose values are scalars, flow    *)
(* sequences "[a, b]" or block sequences of "- item" lines.                *)
(***************************************************************************)
NullWords ==
    { <<"~">>,
      <<"n", "u", "l", "l">>,
      <<"N", "u", "l", "l">>,
      <<"N", "U", "L", "L">> }
TrueWords ==
    { <<"y">>,
      <<"Y">>,
      <<"y", "e", "s">>,
      <<"Y", "e", "s">>,
      <<"Y", "E", "S">>,
      <<"o", "n">>,
      <<"O", "n">>,
      <<"O", "N">>,
      <<"t", "r", "u", "e">>,
      <<"T", "r", "u", "e">>,
      <<"T", "R", "U", "E">> }
FalseWords ==
    { <<"n">>,
      <<"N">>,
      <<"n", "o">>,
      <<"N", "o">>,
      <<"N", "O">>,
      <<"o", "f", "f">>,
      <<"O", "f", "f">>,
      <<"O", "F", "F">>,
      <<"f", "a", "l", "s", "e">>,
      <<"F", "a", "l", "s", "e">>,
      <<"F", "A", "L", "S", "E">> }
Digits == {"0", "1", "2", "3", "4", "5", "6", "7", "8", "9"}

\* A decoded YAML node: kind is "null", "bool", "int", "str", "seq" or "bad"
Node(kind, text, b, items) == [kind |-> kind, text |-> text, b |-> b, items |-> items]

\* yaml.v2 resolve(): the implicit type of a plain scalar
Resolve(text) ==
    IF text = <<>> \/ text \in NullWords THEN Node("null", text, FALSE, <<>>)
    ELSE IF text \in TrueWords THEN Node("bool", text, TRUE, <<>>)
    ELSE IF text \in FalseWords THEN Node("bool", text, FALSE, <<>>)
    ELSE IF \A i \in 1..Len(text) : text[i] \in Digits THEN Node("int", text, FALSE, <<>>)
    ELSE Node("str", text, FALSE, <<>>)

IsQuoted(text) == Len(text) >= 2 /\ text[1] = "\"" /\ text[Len(text)] = "\""

\* a scalar as written: double-quoted is always a string, plain is resolved
ParseScalar(text) ==
    IF IsQuoted(text) THEN Node("str", SubSeq(text, 2, Len(text) - 1), FALSE, <<>>)
    ELSE Resolve(text)

TrimSpace(s) == TrimLeft(TrimRight(s, {" "}), {" "})

RECURSIVE ParseFlowItems(_)
ParseFlowItems(s) ==
    LET m == Index(s, <<",">>)
    IN  IF m = 0 THEN <<ParseScalar(TrimSpace(s))>>
        ELSE <<ParseScalar(TrimSpace(SubSeq(s, 1, m - 1)))>>
               \o ParseFlowItems(SubSeq(s, m + 1, Len(s)))

\* the value after "key:" on the same line
ParseValue(text) ==
    IF Len(text) >= 2 /\ text[1] = "[" /\ text[Len(text)] = "]"
    THEN LET inner == TrimSpace(SubSeq(text, 2, Len(text) - 1))
         IN  Node("seq", <<>>, FALSE, IF inner = <<>> THEN <<>> ELSE ParseFlowItems(inner))
    ELSE ParseScalar(text)

\* the lines of a document, without their terminators
RECURSIVE SplitLines(_)
SplitLines(s) ==
    IF s = <<>> THEN <<>>
    ELSE LET m == Index(s, NL)
         IN  IF m = 0 THEN <<s>>
             ELSE <<SubSeq(s, 1, m - 1)>> \o SplitLines(SubSeq(s, m + 1, Len(s)))

IsBlankLine(l) == LET t == TrimLeft(l, {" "}) IN t = <<>> \/ t[1] = "#"
IsItemLine(l) == LET t == TrimLeft(l, {" "}) IN t = <<"-">> \/ HasPrefixAt(t, 1, <<"-", " ">>)
ItemText(l) == LET t == TrimLeft(l, {" "}) IN TrimSpace(SubSeq(t, 2, Len(t)))

\* the position of the ":" that ends the key of a "key: value" line, 0 if none
KeyEnd(l) ==
    LET hits == {i \in 1..Len(l) : l[i] = ":" /\ (i = Len(l) \/ l[i + 1] = " ")}
    IN  IF l = <<>> \/ l[1] = " " \/ hits = {} THEN 0
        ELSE CHOOSE i \in hits : \A j \in hits : i <= j

\* the block mapping of a document: [err, entries], entries a sequence of
\* [key, node, open]; open means the key had no value on its own line, so
\* "- item" lines may follow
RECURSIVE ParseLines(_, _)
ParseLines(lines, acc) ==
    IF lines = <<>> \/ acc.err THEN acc
    ELSE LET l == lines[1]
             n == Len(acc.entries)
             k == KeyEnd(l)
         IN  IF IsBlankLine(l) THEN ParseLines(Tail(lines), acc)
             ELSE IF IsItemLine(l) THEN
                 IF n > 0 /\ acc.entries[n].open
                 THEN LET e == acc.entries[n]
                          node == Node("seq", <<>>, FALSE,
                                       e.node.items \o <<ParseScalar(ItemText(l))>>)
                      IN  ParseLines(Tail(lines),
                                     [acc EXCEPT !.entries[n] = [e EXCEPT !.node = node]])
                 ELSE [acc EXCEPT !.err = TRUE]
             ELSE IF k = 0 THEN [acc EXCEPT !.err = TRUE]
             ELSE LET key == SubSeq(l, 1, k - 1)
                      val == TrimSpace(SubSeq(l, k + 1, Len(l)))
                  IN  ParseLines(Tail(lines),
                                 [acc EXCEPT !.entries = @ \o
                                     <<[key |-> key, node |-> ParseValue(val),
                                        open |-> val = <<>>]>>])

YamlParse(in) == ParseLines(SplitLines(in), [err |-> FALSE, entries |-> <<>>])

NilSlice == [isNil |-> TRUE, elems |-> <<>>]
Slice(elems) == [isNil |-> FALSE, elems |-> elems]

\* the zero FrontMatter of `new(FrontMatter)`
ZeroFrontMatter == [Class |-> <<>>, Tags |-> NilSlice, PendingReview |-> FALSE]

\* yaml.v2 decoding one node into a Go string: [ok, v]
DecodeString(node) ==
    IF node.kind = "null" THEN [ok |-> TRUE, v |-> <<>>]
    ELSE IF node.kind \in {"str", "int", "bool"} THEN [ok |-> TRUE, v |-> node.text]
    ELSE [ok |-> FALSE, v |-> <<>>]

\* yaml.v2 decoding one node into a Go bool
DecodeBool(node) ==
    IF node.kind = "null" THEN [ok |-> TRUE, v |-> FALSE]
    ELSE IF node.kind = "bool" THEN [ok |-> TRUE, v |-> node.b]
    ELSE [ok |-> FALSE, v |-> FALSE]

\* yaml.v2 decoding one node into a Go []string
DecodeStrings(node) ==
    IF node.kind = "null" THEN [ok |-> TRUE, v |-> NilSlice]
    ELSE IF node.kind = "seq"
    THEN [ok |-> \A i \in 1..Len(node.items) : DecodeString(node.items[i]).ok,
          v  |-> Slice([i \in 1..Len(node.items) |-> DecodeString(node.items[i]).v])]
    ELSE [ok |-> FALSE, v |-> NilSlice]

\* `unmarshal(buf)`: the mapping decoded into the anonymous struct of
\* UnmarshalYAML, a later key overriding an earlier one, unknown keys ignored
RECURSIVE DecodeStruct(_, _)
DecodeStruct(entries, buf) ==
    IF entries = <<>> THEN buf
    ELSE LET e == entries[1]
             next ==
                 IF e.key = K_class
                 THEN LET d == DecodeString(e.node)
                      IN  IF d.ok THEN [buf EXCEPT !.Class = d.v] ELSE [buf EXCEPT !.err = TRUE]
                 ELSE IF e.key = K_tags
                 THEN LET d == DecodeStrings(e.node)
                      IN  IF d.ok THEN [buf EXCEPT !.Tags = d.v] ELSE [buf EXCEPT !.err = TRUE]
                 ELSE IF e.key = K_pending_review
                 THEN LET d == DecodeBool(e.node)
                      IN  IF d.ok THEN [buf EXCEPT !.PendingReview = d.v]
                          ELSE [buf EXCEPT !.err = TRUE]
                 ELSE buf
         IN  DecodeStruct(Tail(entries), next)

ZeroBuf == [err |-> FALSE, Class |-> <<>>, Tags |-> NilSlice, PendingReview |-> FALSE]

\* FrontMatter.UnmarshalYAML: [err, fm] from the mapping's entries
UnmarshalYAML(fm, entries) ==
    LET buf == DecodeStruct(entries, ZeroBuf)
    IN  IF buf.err THEN [err |-> TRUE, fm |-> fm]
        ELSE [err |-> FALSE,
              fm  |-> [Class |-> buf.Class,
                       Tags  |-> IF buf.Tags.isNil THEN Slice(<<>>) ELSE Slice(buf.Tags.elems),
                       PendingReview |-> buf.PendingReview]]

\* yaml.Unmarshal(in, fm): a syntax error fails; a document with no node
\* leaves fm as it is and never calls UnmarshalYAML
YamlUnmarshal(in, fm) ==
    LET p == YamlParse(in)
    IN  IF p.err THEN [err |-> TRUE, fm |-> fm]
        ELSE IF p.entries = <<>> THEN [err |-> FALSE, fm |-> fm]
        ELSE UnmarshalYAML(fm, p.entries)

\* yaml.v2 encoding of a Go string: plain, or double-quoted when the plain
\* form would resolve to something that is not a string
YamlString(s) ==
    IF Resolve(s).kind # "str" THEN <<"\"">> \o s \o <<"\"">> ELSE s

RECURSIVE YamlBlockItems(_)
YamlBlockItems(elems) ==
    IF elems = <<>> THEN <<>>
    ELSE <<"-", " ">> \o YamlString(elems[1]) \o NL \o YamlBlockItems(Tail(elems))

\* yaml.v2 encoding of a []string value after its key: a nil or empty slice
\* is the flow sequence "[]", any other slice a block sequence
YamlStrings(tags) ==
    IF tags.elems = <<>> THEN <<" ", "[", "]">> \o NL
    ELSE NL \o YamlBlockItems(tags.elems)

YamlBool(b) == IF b THEN <<"t", "r", "u", "e">> ELSE <<"f", "a", "l", "s", "e">>

\* yaml.Marshal of the MapSlice built by Thought.Marshal: the items in
\* slice order
YamlMarshal(class, tags, pendingReview) ==
    K_class \o <<":", " ">> \o YamlString(class) \o NL
    \o K_tags \o <<":">> \o YamlStrings(tags)
    \o K_pending_review \o <<":", " ">> \o YamlBool(pendingReview) \o NL

(***************************************************************************)
(* object.go                                                               *)
(***************************************************************************)
NewThought ==
    [Body |-> <<>>, PendingReview |-> FALSE,
     Meta |-> [Class |-> C_thought, Tags |-> Slice(<<>>)]]

\* Meta.Update assigning the class of the front matter
Update_AssignsClass(m, fm) == [Class |-> fm.Class, Tags |-> fm.Tags]

\* Meta.Update: the class is compared (a warning is logged) and never
\* assigned; Tags becomes fm.Tags[:], nil when fm.Tags is nil
Update(m, fm) == [Class |-> m.Class, Tags |-> fm.Tags]

\* Thought.Bucket
Bucket(o) == IF o.PendingReview THEN "to_review" ELSE ""

\* Thought.Marshal appending the newline to an empty body too
Marshal_AlwaysNewline(o, encFails) ==
    LET y == YamlMarshal(o.Meta.Class, o.Meta.Tags, o.PendingReview)
    IN  [b |-> Join(<< <<>>, y, o.Body \o NL >>, SEP), err |-> FALSE]

\* Thought.Marshal appending no newline at all
Marshal_NoNewline(o, encFails) ==
    LET y == YamlMarshal(o.Meta.Class, o.Meta.Tags, o.PendingReview)
    IN  [b |-> Join(<< <<>>, y, o.Body >>, SEP), err |-> FALSE]

\* Thought.Marshal: [b, err].  encFails is yaml.Marshal returning an error,
\* which the code answers with an empty buffer and a nil error.
Marshal(o, encFails) ==
    IF encFails THEN [b |-> <<>>, err |-> FALSE]
    ELSE LET y == YamlMarshal(o.Meta.Class, o.Meta.Tags, o.PendingReview)
             body == IF Len(o.Body) # 0 THEN o.Body \o NL ELSE o.Body
         IN  [b |-> Join(<< <<>>, y, body >>, SEP), err |-> FALSE]

\* Thought.Unmarshal, up to the assignments: [err, fm, body]
Decode(b) ==
    LET parts == SplitN(b, SEP, 3)
    IN  IF Len(parts) # 3 THEN [err |-> TRUE, fm |-> ZeroFrontMatter, body |-> <<>>]
        ELSE IF Len(parts[1]) # 0 THEN [err |-> TRUE, fm |-> ZeroFrontMatter, body |-> <<>>]
        ELSE LET y == YamlUnmarshal(parts[2], ZeroFrontMatter)
             IN  IF y.err THEN [err |-> TRUE, fm |-> ZeroFrontMatter, body |-> <<>>]
                 ELSE [err |-> FALSE, fm |-> y.fm, body |-> TrimRight(parts[3], {"\n"})]

(***************************************************************************)
(* Inputs.  A buffer handed to Unmarshal, or written to the temporary file *)
(* by the function passed to Mutate, is described by a record and rendered *)
(* to bytes by Render; the record says what the writer of the buffer put   *)
(* into it.                                                                *)
(*   shape : "doc"     separator, header, separator, body                  *)
(*           "empty"   no bytes at all                                     *)
(*           "nosep"   the body alone                                      *)
(*           "onesep"  separator, header, body                             *)
(*           "lead"    a line of text before a "doc"                       *)
(*           "midline" a "doc" whose second "---\n" ends the last header   *)
(*                     line instead of standing on a line of its own       *)
(*   hdr   : "map" (the lines below), "empty" or "invalid" (a first line   *)
(*           that is not "key: value")                                     *)
(*   class : "absent", "thought", "journal_entry", "int" or "seq"          *)
(*   tform : "absent", "null", "flow", "block", "indented" or "scalar"     *)
(*   elems : the tags listed                                               *)
(*   pr    : "absent", "true", "false" or "int"                            *)
(*   text, trail : the body is text followed by trail newlines             *)
(***************************************************************************)
T_foo == <<"f", "o", "o">>
T_bar == <<"b", "a", "r">>
T_one == <<"1">>
T_dashes == <<"a", "-", "-", "-">>
C_journal_entry == <<"j", "o", "u", "r", "n", "a", "l", "_", "e", "n", "t", "r", "y">>
B_a == <<"#", " ", "a">>
B_ab == <<"#", " ", "a", "\n", "\n", "b">>
B_blah == <<"#", " ", "b", "l", "a", "h", " ", "b", "l", "a", "h">>
B_sp == <<"#", " ", "a", " ", "\n", "\n", " ", "b", " ", "\t">>

Input(shape, hdr, class, tform, elems, pr, text, trail) ==
    [shape |-> shape, hdr |-> hdr, class |-> class, tform |-> tform,
     elems |-> elems, pr |-> pr, text |-> text, trail |-> trail]

NoInput == Input("none", "empty", "absent", "absent", <<>>, "absent", <<>>, 0)

RECURSIVE Repeat(_, _)
Repeat(s, n) == IF n = 0 THEN <<>> ELSE s \o Repeat(s, n - 1)

ClassLine(c) ==
    CASE c = "absent" -> <<>>
      [] c = "thought" -> K_class \o <<":", " ">> \o C_thought \o NL
      [] c = "journal_entry" -> K_class \o <<":", " ">> \o C_journal_entry \o NL
      [] c = "int" -> K_class \o <<":", " ", "1", "2", "3">> \o NL
      [] c = "seq" -> K_class \o <<":", " ", "[", "a", "]">> \o NL

RECURSIVE ItemLines(_, _)
ItemLines(indent, elems) ==
    IF elems = <<>> THEN <<>>
    ELSE indent \o <<"-", " ">> \o elems[1] \o NL \o ItemLines(indent, Tail(elems))

TagsLines(tform, elems) ==
    CASE tform = "absent" -> <<>>
      [] tform = "null" -> K_tags \o <<":">> \o NL
      [] tform = "flow" -> K_tags \o <<":", " ", "[">> \o Join(elems, <<",", " ">>) \o <<"]">> \o NL
      [] tform = "block" -> K_tags \o <<":">> \o NL \o ItemLines(<<>>, elems)
      [] tform = "indented" -> K_tags \o <<":">> \o NL \o ItemLines(<<" ", " ">>, elems)
      [] tform = "scalar" -> K_tags \o <<":", " ">> \o elems[1] \o NL

PrLine(p) ==
    CASE p = "absent" -> <<>>
      [] p = "true" -> K_pending_review \o <<":", " ", "t", "r", "u", "e">> \o NL
      [] p = "false" -> K_pending_review \o <<":", " ", "f", "a", "l", "s", "e">> \o NL
      [] p = "int" -> K_pending_review \o <<":", " ", "1">> \o NL

HeaderOf(d) ==
    CASE d.hdr = "empty" -> <<>>
      [] d.hdr = "invalid" ->
            <<"c", "l", "a", "s", "s", "-", "t", "h", "o", "u", "g", "h", "t", "!">> \o NL
            \o PrLine(d.pr) \o TagsLines(d.tform, d.elems)
      [] d.hdr = "map" -> ClassLine(d.class) \o TagsLines(d.tform, d.elems) \o PrLine(d.pr)

BodyOf(d) == d.text \o Repeat(NL, d.trail)

Render(d) ==
    CASE d.shape \in {"none", "empty"} -> <<>>
      [] d.shape = "nosep" -> BodyOf(d)
      [] d.shape = "onesep" -> SEP \o HeaderOf(d) \o BodyOf(d)
      [] d.shape = "lead" -> <<"x">> \o NL \o SEP \o HeaderOf(d) \o SEP \o BodyOf(d)
      [] d.shape = "midline" ->
            SEP \o TrimRight(HeaderOf(d), {"\n"}) \o SEP \o BodyOf(d)
      [] d.shape = "doc" -> SEP \o HeaderOf(d) \o SEP \o BodyOf(d)

\* documents with a well-formed header
GoodInputs ==
    { Input("doc", "map", "thought", t[1], t[2], t[3], B_a, 1) :
        t \in { <<"absent", <<>>, "true">>, <<"null", <<>>, "absent">>,
                <<"flow", <<>>, "true">>, <<"block", <<T_foo, T_bar>>, "absent">>,
                <<"block", <<T_foo, T_bar>>, "true">>,
                <<"indented", <<T_bar, T_foo>>, "true">>,
                <<"flow", <<T_foo, T_one>>, "absent">>,
                <<"flow", <<T_dashes, T_foo>>, "true">> } }
    \cup
    { Input("doc", "map", c, t[1], t[2], p, b[1], b[2]) :
        c \in {"journal_entry", "absent"},
        t \in { <<"null", <<>>>>, <<"block", <<T_foo, T_bar>>>> },
        p \in {"false"},
        b \in { <<<<>>, 0>>, <<B_ab, 3>> } }
    \cup
    { Input("doc", "map", "thought", "flow", <<>>, "absent", b[1], b[2]) :
        b \in { <<<<>>, 2>>, <<B_sp, 2>> } }

\* the malformed buffers, and the buffers whose header has a field of the
\* wrong type or holds the separator's bytes
OddInputs ==
    { Input("empty", "empty", "absent", "absent", <<>>, "absent", <<>>, 0),
      Input("nosep", "empty", "absent", "absent", <<>>, "absent", B_ab, 0),
      Input("onesep", "empty", "absent", "absent", <<>>, "absent", B_ab, 1),
      Input("onesep", "map", "thought", "null", <<>>, "absent", B_a, 1),
      Input("lead", "map", "thought", "null", <<>>, "absent", B_a, 1),
      Input("midline", "map", "thought", "absent", <<>>, "absent", B_a, 1),
      Input("doc", "empty", "absent", "absent", <<>>, "absent", B_a, 1),
      Input("doc", "invalid", "absent", "indented", <<T_foo, T_bar>>, "true", B_ab, 0),
      Input("doc", "map", "int", "null", <<>>, "absent", B_a, 0),
      Input("doc", "map", "seq", "null", <<>>, "absent", B_a, 0),
      Input("doc", "map", "thought", "scalar", <<T_foo>>, "true", B_a, 0),
      Input("doc", "map", "thought", "block", <<T_foo>>, "int", B_ab, 0),
      Input("doc", "map", "thought", "block", <<T_dashes>>, "true", B_a, 0) }

Inputs == GoodInputs \cup OddInputs

\* Thought.Unmarshal assigning PendingReview from the still empty front
\* matter before it checks the decoder's error
Unmarshal_AssignsFirst(o, b) ==
    LET r == Decode(b)
    IN  IF r.err THEN [err |-> TRUE, obj |-> [o EXCEPT !.PendingReview = r.fm.PendingReview]]
        ELSE [err |-> FALSE,
              obj |-> [Body |-> r.body,
                       PendingReview |-> r.fm.PendingReview,
                       Meta |-> [Class |-> o.Meta.Class, Tags |-> r.fm.Tags]]]

\* Thought.Unmarshal assigning Body before it decodes the header
Unmarshal_BodyFirst(o, b) ==
    LET parts == SplitN(b, SEP, 3)
        r == Decode(b)
    IN  IF Len(parts) # 3 \/ Len(parts[1]) # 0 THEN [err |-> TRUE, obj |-> o]
        ELSE IF r.err
        THEN [err |-> TRUE, obj |-> [o EXCEPT !.Body = TrimRight(parts[3], {"\n"})]]
        ELSE [err |-> FALSE,
              obj |-> [Body |-> r.body,
                       PendingReview |-> r.fm.PendingReview,
                       Meta |-> Update(o.Meta, r.fm)]]

\* Thought.Unmarshal keeping the receiver's Body when the document has none
Unmarshal_KeepsBody(o, b) ==
    LET r == Decode(b)
    IN  IF r.err THEN [err |-> TRUE, obj |-> o]
        ELSE [err |-> FALSE,
              obj |-> [Body |-> IF r.body = <<>> THEN o.Body ELSE r.body,
                       PendingReview |-> r.fm.PendingReview,
                       Meta |-> Update(o.Meta, r.fm)]]

\* Thought.Unmarshal: [err, obj]
Unmarshal(o, b) ==
    LET r == Decode(b)
    IN  IF r.err THEN [err |-> TRUE, obj |-> o]
        ELSE [err |-> FALSE,
              obj |-> [Body |-> r.body,
                       PendingReview |-> r.fm.PendingReview,
                       Meta |-> Update(o.Meta, r.fm)]]

(***************************************************************************)
(* The Action Queue (queue.go).  An Action is a number: every Action       *)
(* handed to Enqueue or returned as offspring by Run is a new value, the   *)
(* made-th one made so far.  A Run returns its offspring and nil or an     *)
(* error.  Indices are Go's, from 0.                                       *)
(*   actions     q.actions                                                 *)
(*   mu          q.mu: 0 when unlocked, else the thread that locked it     *)
(*   discipline  q.discipline                                              *)
(*   tpc         each thread's position: "idle"; "enq_app" in Enqueue,     *)
(*               locked, before the append; "deq_sel" in RunNext, locked,  *)
(*               before the emptiness check; "deq_run" while a.Run()       *)
(*               executes; "deq_req" when Run has returned; "deq_nested"   *)
(*               when Run has called Enqueue or RunNext on q and is in     *)
(*               that call's q.mu.Lock()                                   *)
(*   tcur        each thread's locals: the action a, the value of          *)
(*               q.actions it read, and what Run returned                  *)
(*   qret        history: what the last call to return returned, and to    *)
(*               which thread                                              *)
(*   made        the number of Actions made so far                         *)
(*   hist        history: the completed runs, in order                     *)
(***************************************************************************)
VARIABLES actions, mu, discipline, tpc, tcur, qret, made, hist

qvars == <<actions, mu, discipline, tpc, tcur, qret, made, hist>>

NumThreads == 2
MaxActions == 3
MaxOffspring == 2

Threads == 1..NumThreads

errDequeueOnEmptyQueue == "Dequeue called on empty queue"
errUnableToPick == "Unable to pick next action"
errRun == "error returned by Run"
Nil == "nil"

\* a discipline that picks the action enqueued last
FifoDiscipline_Newest(as) == IF Len(as) <= 0 THEN -1 ELSE Len(as) - 1

\* FifoDiscipline
FifoDiscipline(as) == IF Len(as) <= 0 THEN -1 ELSE 0

\* disciplines a caller may pass to NewQueue besides FifoDiscipline: one that
\* picks the newest action, and one that never picks
NewestDiscipline(as) == IF Len(as) <= 0 THEN -1 ELSE Len(as) - 1
NeverDiscipline(as) == -1

Disciplines == {"Fifo", "Newest", "Never"}

\* q.discipline(q.actions)
Pick(disc, as) ==
    CASE disc = "Fifo" -> FifoDiscipline(as)
      [] disc = "Newest" -> NewestDiscipline(as)
      [] disc = "Never" -> NeverDiscipline(as)

\* RunNext consulting the discipline before it looks at the length
Select_AsksFirst(as, disc) ==
    LET i == Pick(disc, as)
    IN  IF i = -1
        THEN [kind |-> "nosel", err |-> errUnableToPick, asked |-> TRUE, a |-> 0, rest |-> as]
        ELSE [kind |-> "run", err |-> Nil, asked |-> TRUE, a |-> as[i + 1],
              rest |-> SubSeq(as, 1, i) \o SubSeq(as, i + 2, Len(as))]

\* RunNext answering -1 with the error of the empty queue
Select_SameError(as, disc) ==
    IF Len(as) <= 0
    THEN [kind |-> "empty", err |-> errDequeueOnEmptyQueue, asked |-> FALSE, a |-> 0, rest |-> as]
    ELSE LET i == Pick(disc, as)
         IN  IF i = -1
             THEN [kind |-> "nosel", err |-> errDequeueOnEmptyQueue, asked |-> TRUE, a |-> 0,
                   rest |-> as]
             ELSE [kind |-> "run", err |-> Nil, asked |-> TRUE, a |-> as[i + 1],
                   rest |-> SubSeq(as, 1, i) \o SubSeq(as, i + 2, Len(as))]

\* RunNext running the selected action and removing the oldest one
Select_RemovesFirst(as, disc) ==
    IF Len(as) <= 0
    THEN [kind |-> "empty", err |-> errDequeueOnEmptyQueue, asked |-> FALSE, a |-> 0, rest |-> as]
    ELSE LET i == Pick(disc, as)
         IN  IF i = -1
             THEN [kind |-> "nosel", err |-> errUnableToPick, asked |-> TRUE, a |-> 0,
                   rest |-> as]
             ELSE [kind |-> "run", err |-> Nil, asked |-> TRUE, a |-> as[i + 1],
                   rest |-> Tail(as)]

\* RunNext, lines 64-74: the emptiness check, the discipline, the removal.
\* asked says whether the discipline was called; a is the action taken out
\* and rest what q.actions becomes.
Select(as, disc) ==
    IF Len(as) <= 0
    THEN [kind |-> "empty", err |-> errDequeueOnEmptyQueue, asked |-> FALSE, a |-> 0, rest |-> as]
    ELSE LET i == Pick(disc, as)
         IN  IF i = -1
             THEN [kind |-> "nosel", err |-> errUnableToPick, asked |-> TRUE, a |-> 0,
                   rest |-> as]
             ELSE [kind |-> "run", err |-> Nil, asked |-> TRUE, a |-> as[i + 1],
                   rest |-> SubSeq(as, 1, i) \o SubSeq(as, i + 2, Len(as))]

\* RunNext appending the offspring only when Run returned no error
Requeue_NotOnError(as, kids, err) == IF err # Nil THEN as ELSE as \o kids

\* offspring put in front of the pending actions
Requeue_Front(as, kids, err) == kids \o as

\* RunNext, line 77: q.actions = append(q.actions, offspring...)
Requeue(as, kids, err) == as \o kids

\* final computed from the list as it was before the offspring were
\* appended, as Dequeue did before Run returned offspring
Final_Early(before, after) == Len(before) <= 0

\* RunNext, lines 78-80: final, from q.actions after the append (before:
\* the list when Run returned)
Final(before, after) == Len(after) <= 0

\* Enqueue putting the action in front
AppendAction_Front(as, a) == <<a>> \o as

\* Enqueue, line 43: append(q.actions, a)
AppendAction(as, a) == Append(as, a)

\* a sync.Mutex that is never waited for
CanLock_Always(m) == TRUE

\* q.mu.Lock() returns only when the mutex is unlocked
CanLock(m) == m = 0

NoLocals == [a |-> 0, read |-> <<>>, kids |-> <<>>, err |-> Nil]
NoReturn == [t |-> 0, op |-> "none", final |-> FALSE, err |-> Nil, asked |-> FALSE]

\* NewQueue(disc)
NewQueue(disc) ==
    /\ discipline = disc
    /\ actions = <<>>
    /\ mu = 0
    /\ tpc = [t \in Threads |-> "idle"]
    /\ tcur = [t \in Threads |-> NoLocals]
    /\ qret = NoReturn
    /\ made = 0
    /\ hist = <<>>

(***************************************************************************)
(* main.go: thoughtAdd and timer.                                          *)
(*   ta  the state of `j ta`: where thoughtAdd is (pc: "idle", "edit" in   *)
(*       editFile, "commit" before gitCommit, "push" before gitPush), the  *)
(*       file at thoughtPath (exists, content), beforeHash and afterHash,  *)
(*       what the last call returned (ret), whether that call committed    *)
(*       and pushed, the calls made, and the commits and pushes the        *)
(*       workspace has seen                                                *)
(*   tm  the state of `j timer`: where timer is (pc: "idle", "running" in  *)
(*       the select, "paused" in the second receive from sigTSTPCh,        *)
(*       "elapsed", "failed"), dur, the clock (now; startTime is 0), when  *)
(*       the time.Timer fires (fireAt), remainingDur, the SIGTSTP received *)
(*       (signals) and, as history, the time spent running (ran)           *)
(* Time is counted in whole units.                                         *)
(***************************************************************************)
VARIABLES ta, tm

mvars == <<ta, tm>>

MaxCalls == 3
MaxDur == 3
MaxTime == 6
MaxSignals == 4

\* what the template renders to, and what the editor may leave in the file
Template == "template"
Contents == {Template, "a thought", "another thought"}

NoHash == <<>>

\* hashFile of a file that can be opened: sha256.Sum256 of its content,
\* without collisions on Contents
hashFile(content) == <<"sha256", content>>

\* bytes.Compare(afterHash, beforeHash) == 0
SameHash(afterHash, beforeHash) == afterHash = beforeHash

TaIdle ==
    [pc |-> "idle", exists |-> FALSE, content |-> Template, beforeHash |-> NoHash,
     afterHash |-> NoHash, ret |-> "none", committed |-> FALSE, pushed |-> FALSE,
     calls |-> 0, commits |-> 0, pushes |-> 0]

TmIdle ==
    [pc |-> "idle", dur |-> 0, now |-> 0, fireAt |-> 0, remainingDur |-> 0,
     signals |-> 0, ran |-> 0]

\* neither command has been started
MainIdle == ta = TaIdle /\ tm = TmIdle

(***************************************************************************)
(* State.                                                                  *)
(*   obj      the Thought                                                  *)
(*   pc       "idle": no call in progress; "fn": Mutate has written the    *)
(*            temporary file and calls fn; "fnret": fn has returned        *)
(*   tmp      the temporary file of the current or last Mutate call        *)
(*   fnErr    whether fn returned an error                                 *)
(*   out      the buffer the last Marshal call returned                    *)
(*   encFails whether yaml.Marshal fails in this run                       *)
(*   pre, arg, ret  history: obj before the current or last call, what the *)
(*            call was given, and how it returned                          *)
(***************************************************************************)
VARIABLES obj, pc, tmp, fnErr, out, encFails, pre, arg, ret

ovars == <<obj, pc, tmp, fnErr, out, encFails, pre, arg, ret>>

vars == <<obj, pc, tmp, fnErr, out, encFails, pre, arg, ret,
          actions, mu, discipline, tpc, tcur, qret, made, hist, ta, tm>>

NoFile == [exists |-> FALSE, content |-> <<>>]
File(content) == [exists |-> TRUE, content |-> content]

\* os.Remove(path), deferred in Mutate
Remove(f) == NoFile

\* ioutil.ReadAll stopping one byte short of the end of the file
ReadAll_Short(f) == SubSeq(f.content, 1, Len(f.content) - 1)

\* ioutil.ReadAll(ff) without an error: the whole content of the file
ReadAll(f) == f.content

Ret(op, err, step) == [op |-> op, err |-> err, step |-> step]

Init ==
    /\ obj = NewThought
    /\ pc = "idle"
    /\ tmp = NoFile
    /\ fnErr = FALSE
    /\ out = <<>>
    /\ encFails = FALSE
    /\ pre = NewThought
    /\ arg = NoInput
    /\ ret = Ret("none", FALSE, "")
    /\ NewQueue("Fifo")
    /\ MainIdle

\* obj.Unmarshal(Render(d))
UnmarshalOp(d) ==
    /\ pc = "idle"
    /\ LET r == Unmarshal(obj, Render(d))
       IN  /\ obj' = r.obj
           /\ ret' = Ret("Unmarshal", r.err, "")
    /\ pre' = obj
    /\ arg' = d
    /\ out' = <<>>
    /\ UNCHANGED <<pc, tmp, fnErr, encFails>>
    /\ UNCHANGED <<qvars, mvars>>

\* obj.Marshal()
MarshalOp ==
    /\ pc = "idle"
    /\ LET r == Marshal(obj, encFails)
       IN  /\ out' = r.b
           /\ ret' = Ret("Marshal", r.err, "")
    /\ pre' = obj
    /\ arg' = NoInput
    /\ UNCHANGED <<obj, pc, tmp, fnErr, encFails>>
    /\ UNCHANGED <<qvars, mvars>>

MutateSteps == {"tempfile", "abs", "write", "ok"}

\* Mutate from its entry to the call of fn (lines 117-143).  fails names
\* the step that returns an error, "ok" none.  yaml.Marshal's error never
\* reaches line 129, and a short write comes with a write error.
MutateBegin(fails) ==
    /\ pc = "idle"
    /\ pre' = obj
    /\ arg' = NoInput
    /\ out' = <<>>
    /\ fnErr' = FALSE
    /\ UNCHANGED <<obj, encFails>>
    /\ UNCHANGED <<qvars, mvars>>
    /\ LET m == Marshal(obj, encFails)
       IN  CASE fails = "tempfile" ->
                  /\ tmp' = NoFile
                  /\ pc' = "idle"
                  /\ ret' = Ret("Mutate", TRUE, "tempfile")
             [] fails = "abs" ->
                  \* the file exists and os.Remove is not yet deferred
                  /\ tmp' = File(<<>>)
                  /\ pc' = "idle"
                  /\ ret' = Ret("Mutate", TRUE, "abs")
             [] fails = "write" ->
                  /\ tmp' = Remove(File(<<>>))
                  /\ pc' = "idle"
                  /\ ret' = Ret("Mutate", TRUE, "write")
             [] fails = "ok" ->
                  /\ tmp' = File(m.b)
                  /\ pc' = "fn"
                  /\ ret' = Ret("Mutate", FALSE, "running")

\* fn(path): the caller's function leaves the file as it is, removes it,
\* or rewrites it with Render(d), and returns nil or an error
MutateFn(what, d, err) ==
    /\ pc = "fn"
    /\ \/ what = "keep" /\ d = NoInput /\ tmp' = tmp
       \/ what = "remove" /\ d = NoInput /\ tmp' = NoFile
       \/ what = "write" /\ d \in Inputs /\ tmp' = File(Render(d))
    /\ arg' = [d EXCEPT !.shape = IF what = "write" THEN d.shape ELSE what]
    /\ fnErr' = err
    /\ pc' = "fnret"
    /\ UNCHANGED <<obj, out, encFails, pre, ret>>
    /\ UNCHANGED <<qvars, mvars>>

FinishSteps == {"open", "read", "ok"}

\* Mutate reading the file back before it looks at fn's error
MutateEnd_ReadsAnyway(fails) ==
    /\ pc = "fnret"
    /\ pc' = "idle"
    /\ tmp' = Remove(tmp)
    /\ fnErr' = FALSE
    /\ UNCHANGED <<out, encFails, pre, arg>>
    /\ UNCHANGED <<qvars, mvars>>
    /\ IF fails = "open" \/ ~tmp.exists
       THEN /\ fails = "open"
            /\ obj' = obj
            /\ ret' = Ret("Mutate", TRUE, IF fnErr THEN "fn" ELSE "open")
       ELSE IF fails = "read"
       THEN /\ obj' = obj
            /\ ret' = Ret("Mutate", TRUE, IF fnErr THEN "fn" ELSE "read")
       ELSE LET r == Unmarshal(obj, ReadAll(tmp))
            IN  /\ obj' = r.obj
                /\ ret' = Ret("Mutate", fnErr \/ r.err,
                              IF fnErr THEN "fn" ELSE IF r.err THEN "unmarshal" ELSE "")

\* Mutate after fn has returned (lines 143-157), and the deferred os.Remove
MutateEnd(fails) ==
    /\ pc = "fnret"
    /\ pc' = "idle"
    /\ tmp' = Remove(tmp)
    /\ fnErr' = FALSE
    /\ UNCHANGED <<out, encFails, pre, arg>>
    /\ UNCHANGED <<qvars, mvars>>
    /\ IF fnErr
       THEN /\ fails = "ok"
            /\ obj' = obj
            /\ ret' = Ret("Mutate", TRUE, "fn")
       ELSE IF fails = "open" \/ ~tmp.exists
       THEN /\ fails = "open"
            /\ obj' = obj
            /\ ret' = Ret("Mutate", TRUE, "open")
       ELSE IF fails = "read"
       THEN /\ obj' = obj
            /\ ret' = Ret("Mutate", TRUE, "read")
       ELSE LET r == Unmarshal(obj, ReadAll(tmp))
            IN  /\ obj' = r.obj
                /\ ret' = Ret("Mutate", r.err, IF r.err THEN "unmarshal" ELSE "")

Next ==
    \/ \E d \in Inputs : UnmarshalOp(d)
    \/ MarshalOp
    \/ \E fails \in MutateSteps : MutateBegin(fails)
    \/ \E what \in {"keep", "remove", "write"}, d \in Inputs \cup {NoInput}, err \in BOOLEAN :
          MutateFn(what, d, err)
    \/ \E fails \in FinishSteps : MutateEnd(fails)

Spec == Init /\ [][Next]_vars

(***************************************************************************)
(* Marshal and Unmarshal as functions: SpecRT starts from any Thought of   *)
(* class "thought" built as a struct literal, with at most MaxTags tags,   *)
(* marshals it, and unmarshals the bytes into a fresh NewThought().        *)
(***************************************************************************)
MaxTags == 2

TagWords == {T_foo, T_bar, T_one, T_dashes}
TagSeqs == UNION {[1..n -> TagWords] : n \in 0..MaxTags}
Bodies == {<<>>, B_blah, B_ab, B_a \o NL, <<"-", "-", "-">>}

Thoughts ==
    { [Body |-> b, PendingReview |-> p, Meta |-> [Class |-> C_thought, Tags |-> Slice(t)]] :
        b \in Bodies, p \in BOOLEAN, t \in TagSeqs }

InitRT ==
    /\ obj \in Thoughts
    /\ pc = "idle"
    /\ tmp = NoFile
    /\ fnErr = FALSE
    /\ out = <<>>
    /\ encFails = FALSE
    /\ pre = obj
    /\ arg = NoInput
    /\ ret = Ret("none", FALSE, "")
    /\ NewQueue("Fifo")
    /\ MainIdle

\* NewThought().Unmarshal(out), out being what Marshal returned for obj
UnmarshalFresh ==
    /\ pc = "idle"
    /\ ret.op = "Marshal"
    /\ LET r == Unmarshal(NewThought, out)
       IN  /\ obj' = r.obj
           /\ ret' = Ret("Unmarshal", r.err, "roundtrip")
    /\ pre' = obj
    /\ arg' = NoInput
    /\ UNCHANGED <<pc, tmp, fnErr, out, encFails>>
    /\ UNCHANGED <<qvars, mvars>>

NextRT == MarshalOp \/ UnmarshalFresh

SpecRT == InitRT /\ [][NextRT]_vars

(***************************************************************************)
(* The header encoder failing: SpecEnc is Spec on a few buffers, started   *)
(* with yaml.Marshal either working or returning an error on every call.   *)
(***************************************************************************)
EncInputs ==
    { Input("doc", "map", "thought", "absent", <<>>, "true", B_a, 1),
      Input("doc", "map", "thought", "block", <<T_foo, T_bar>>, "absent", B_a, 1),
      Input("doc", "map", "journal_entry", "null", <<>>, "false", B_ab, 3),
      Input("empty", "empty", "absent", "absent", <<>>, "absent", <<>>, 0) }

InitEnc ==
    /\ obj = NewThought
    /\ pc = "idle"
    /\ tmp = NoFile
    /\ fnErr = FALSE
    /\ out = <<>>
    /\ encFails \in BOOLEAN
    /\ pre = NewThought
    /\ arg = NoInput
    /\ ret = Ret("none", FALSE, "")
    /\ NewQueue("Fifo")
    /\ MainIdle

NextEnc ==
    \/ \E d \in EncInputs : UnmarshalOp(d)
    \/ MarshalOp
    \/ \E fails \in MutateSteps : MutateBegin(fails)
    \/ \E what \in {"keep", "remove", "write"}, d \in EncInputs \cup {NoInput}, err \in BOOLEAN :
          MutateFn(what, d, err)
    \/ \E fails \in FinishSteps : MutateEnd(fails)

SpecEnc == InitEnc /\ [][NextEnc]_vars

(***************************************************************************)
(* The Action Queue: SpecQ is a queue made by NewQueue with one of the     *)
(* disciplines, and NumThreads threads calling Enqueue and RunNext on it.  *)
(***************************************************************************)
Locals(a, read, kids, err) == [a |-> a, read |-> read, kids |-> kids, err |-> err]
Return(t, op, final, err, asked) ==
    [t |-> t, op |-> op, final |-> final, err |-> err, asked |-> asked]

\* the k Actions made after the first n
Fresh(n, k) == [i \in 1..k |-> n + i]

\* Enqueue(a) with a new Action a, line 41: q.mu.Lock().  Until the unlock
\* q.actions is what it is now, which is what line 43 will read.  The call
\* comes from an idle thread or from the Run of the action the thread is
\* running.
EnqLock(t) ==
    /\ tpc[t] \in {"idle", "deq_nested"}
    /\ made < MaxActions
    /\ CanLock(mu)
    /\ mu' = t
    /\ made' = made + 1
    /\ tcur' = [tcur EXCEPT ![t] = Locals(made + 1, actions, <<>>, Nil)]
    /\ tpc' = [tpc EXCEPT ![t] = "enq_app"]
    /\ UNCHANGED <<actions, discipline, qret, hist>>
    /\ UNCHANGED <<ovars, mvars>>

\* Enqueue, line 43 and the deferred q.mu.Unlock()
EnqAppend(t) ==
    /\ tpc[t] = "enq_app"
    /\ actions' = AppendAction(tcur[t].read, tcur[t].a)
    /\ mu' = 0
    /\ tpc' = [tpc EXCEPT ![t] = "idle"]
    /\ qret' = Return(t, "Enqueue", FALSE, Nil, FALSE)
    /\ UNCHANGED <<discipline, tcur, made, hist>>
    /\ UNCHANGED <<ovars, mvars>>

\* RunNext, line 62: q.mu.Lock(), called by an idle thread or by the Run of
\* the action the thread is running
DeqLock(t) ==
    /\ tpc[t] \in {"idle", "deq_nested"}
    /\ CanLock(mu)
    /\ mu' = t
    /\ tpc' = [tpc EXCEPT ![t] = "deq_sel"]
    /\ tcur' = [tcur EXCEPT ![t] = NoLocals]
    /\ UNCHANGED <<actions, discipline, qret, made, hist>>
    /\ UNCHANGED <<ovars, mvars>>

\* RunNext, lines 64-74: return an error (and unlock), or take the selected
\* action out of q.actions and call its Run
DeqSelect(t) ==
    /\ tpc[t] = "deq_sel"
    /\ LET r == Select(actions, discipline)
       IN  IF r.kind = "run"
           THEN /\ actions' = r.rest
                /\ tcur' = [tcur EXCEPT ![t] = Locals(r.a, <<>>, <<>>, Nil)]
                /\ tpc' = [tpc EXCEPT ![t] = "deq_run"]
                /\ UNCHANGED <<mu, qret>>
           ELSE /\ mu' = 0
                /\ tpc' = [tpc EXCEPT ![t] = "idle"]
                /\ qret' = Return(t, "RunNext", FALSE, r.err, r.asked)
                /\ UNCHANGED <<actions, tcur>>
    /\ UNCHANGED <<discipline, made, hist>>
    /\ UNCHANGED <<ovars, mvars>>

\* a.Run() returns k new Actions as offspring, and err
DeqRun(t, k, err) ==
    /\ tpc[t] = "deq_run"
    /\ made + k <= MaxActions
    /\ made' = made + k
    /\ tcur' = [tcur EXCEPT ![t] = Locals(tcur[t].a, <<>>, Fresh(made, k), err)]
    /\ tpc' = [tpc EXCEPT ![t] = "deq_req"]
    /\ UNCHANGED <<actions, mu, discipline, qret, hist>>
    /\ UNCHANGED <<ovars, mvars>>

\* a.Run() calls q.Enqueue or q.RunNext: the thread reaches the q.mu.Lock()
\* of that call while it holds q.mu for the RunNext that runs a
DeqRunNested(t) ==
    /\ tpc[t] = "deq_run"
    /\ tpc' = [tpc EXCEPT ![t] = "deq_nested"]
    /\ UNCHANGED <<actions, mu, discipline, tcur, qret, made, hist>>
    /\ UNCHANGED <<ovars, mvars>>

\* RunNext, lines 77-81 and the deferred q.mu.Unlock()
DeqRequeue(t) ==
    /\ tpc[t] = "deq_req"
    /\ LET after == Requeue(actions, tcur[t].kids, tcur[t].err)
           final == Final(actions, after)
       IN  /\ actions' = after
           /\ qret' = Return(t, "RunNext", final, tcur[t].err, TRUE)
           /\ hist' = Append(hist, [a |-> tcur[t].a, final |-> final,
                                    kids |-> tcur[t].kids, made |-> made])
    /\ mu' = 0
    /\ tpc' = [tpc EXCEPT ![t] = "idle"]
    /\ UNCHANGED <<discipline, tcur, made>>
    /\ UNCHANGED <<ovars, mvars>>

InitQ ==
    /\ obj = NewThought
    /\ pc = "idle"
    /\ tmp = NoFile
    /\ fnErr = FALSE
    /\ out = <<>>
    /\ encFails = FALSE
    /\ pre = NewThought
    /\ arg = NoInput
    /\ ret = Ret("none", FALSE, "")
    /\ \E disc \in Disciplines : NewQueue(disc)
    /\ MainIdle

NextQ ==
    \E t \in Threads :
        \/ EnqLock(t)
        \/ EnqAppend(t)
        \/ DeqLock(t)
        \/ DeqSelect(t)
        \/ \E k \in 0..MaxOffspring, err \in {Nil, errRun} : DeqRun(t, k, err)
        \/ DeqRunNested(t)
        \/ DeqRequeue(t)

SpecQ == InitQ /\ [][NextQ]_vars

(***************************************************************************)
(* `j ta`: thoughtAdd, called up to MaxCalls times on one workspace.       *)
(* newFile, editFile, gitCommit and gitPush are calls out of the program:  *)
(* each may return an error, and the editor leaves any of Contents in the  *)
(* file or removes it.                                                     *)
(***************************************************************************)
TaReturn(t, r) == [t EXCEPT !.pc = "idle", !.ret = r]

\* thoughtAdd from its entry to the call of editFile: newFile and the
\* first hashFile.  fails names the call that returns an error, "ok" none.
ThoughtAddBegin(fails) ==
    /\ ta.pc = "idle"
    /\ ta.calls < MaxCalls
    /\ LET t == [ta EXCEPT !.calls = @ + 1, !.exists = FALSE, !.content = Template,
                           !.beforeHash = NoHash, !.afterHash = NoHash,
                           !.committed = FALSE, !.pushed = FALSE]
       IN  CASE fails = "newFile" -> ta' = TaReturn(t, "newFile")
             [] fails = "hashFile" -> ta' = TaReturn([t EXCEPT !.exists = TRUE], "hashFile")
             [] fails = "ok" ->
                  ta' = [t EXCEPT !.pc = "edit", !.exists = TRUE, !.ret = "running",
                                  !.beforeHash = hashFile(Template)]
    /\ UNCHANGED <<ovars, qvars, tm>>

\* editFile returns, then the second hashFile, the comparison of the two
\* hashes and removeFile.  Nothing returns after removeFile: thoughtAdd
\* goes on to gitCommit.
ThoughtAddEdited(content, removed, err) ==
    /\ ta.pc = "edit"
    /\ LET t == [ta EXCEPT !.exists = ~removed, !.content = content]
       IN  IF err THEN ta' = TaReturn(t, "editFile")
           ELSE IF removed THEN ta' = TaReturn(t, "hashFile")
           ELSE LET afterHash == hashFile(content)
                IN  ta' = [t EXCEPT !.afterHash = afterHash,
                                    !.exists = ~SameHash(afterHash, ta.beforeHash),
                                    !.pc = "commit"]
    /\ UNCHANGED <<ovars, qvars, tm>>

\* gitCommit(workspace, {thoughtRelPath}, "j ta"): PlainOpen, Worktree, Add
\* and Commit.  What Add does with the path of a removed file is go-git's
\* choice, so the call may fail or commit whether or not the file exists.
ThoughtAddCommit(err) ==
    /\ ta.pc = "commit"
    /\ IF err THEN ta' = TaReturn(ta, "gitCommit")
       ELSE ta' = [ta EXCEPT !.pc = "push", !.committed = TRUE, !.commits = @ + 1]
    /\ UNCHANGED <<ovars, qvars, tm>>

\* gitPush(workspace), and thoughtAdd returns
ThoughtAddPush(err) ==
    /\ ta.pc = "push"
    /\ IF err THEN ta' = TaReturn(ta, "gitPush")
       ELSE ta' = TaReturn([ta EXCEPT !.pushed = TRUE, !.pushes = @ + 1], "nil")
    /\ UNCHANGED <<ovars, qvars, tm>>

InitTA == InitQ /\ discipline = "Fifo"

NextTA ==
    \/ \E fails \in {"newFile", "hashFile", "ok"} : ThoughtAddBegin(fails)
    \/ \E content \in Contents, removed \in BOOLEAN, err \in BOOLEAN :
          ThoughtAddEdited(content, removed, err)
    \/ \E err \in BOOLEAN : ThoughtAddCommit(err)
    \/ \E err \in BOOLEAN : ThoughtAddPush(err)

SpecTA == InitTA /\ [][NextTA]_vars

(***************************************************************************)
(* `j timer`: timer(durStr) with dur in 1..MaxDur, the clock advancing by  *)
(* one unit at a time up to MaxTime, and up to MaxSignals SIGTSTP.  A      *)
(* time.Timer that is due is received from before the clock advances.      *)
(***************************************************************************)
\* timer from its entry to the loop: startTime, ParseDuration (whose dur
\* is 0 with an error), NewTimer
TimerStart(dur, err) ==
    /\ tm.pc = "idle"
    /\ tm' = [tm EXCEPT !.pc = IF err THEN "failed" ELSE "running",
                        !.dur = IF err THEN 0 ELSE dur,
                        !.fireAt = tm.now + (IF err THEN 0 ELSE dur)]
    /\ UNCHANGED <<ovars, qvars, ta>>

\* one unit of time passes while timer waits in the select or for the
\* second SIGTSTP
Tick ==
    /\ tm.pc \in {"running", "paused"}
    /\ tm.now < MaxTime
    /\ tm.pc = "running" => tm.now < tm.fireAt
    /\ tm' = [tm EXCEPT !.now = @ + 1,
                        !.ran = IF tm.pc = "running" THEN @ + 1 ELSE @]
    /\ UNCHANGED <<ovars, qvars, ta>>

\* case <-timer.C
TimerElapsed ==
    /\ tm.pc = "running"
    /\ tm.now >= tm.fireAt
    /\ tm' = [tm EXCEPT !.pc = "elapsed"]
    /\ UNCHANGED <<ovars, qvars, ta>>

\* case <-sigTSTPCh, up to the second receive: timer.Stop(), elapsedDur
\* and remainingDur.  startTime is the clock's 0.
TimerPause ==
    /\ tm.pc = "running"
    /\ tm.signals < MaxSignals
    /\ LET elapsedDur == tm.now - 0
           remainingDur == tm.dur - elapsedDur
       IN  tm' = [tm EXCEPT !.pc = "paused", !.remainingDur = remainingDur,
                            !.signals = @ + 1]
    /\ UNCHANGED <<ovars, qvars, ta>>

\* <-sigTSTPCh while paused, and timer.Reset(remainingDur)
TimerResume ==
    /\ tm.pc = "paused"
    /\ tm.signals < MaxSignals
    /\ tm' = [tm EXCEPT !.pc = "running", !.fireAt = tm.now + tm.remainingDur,
                        !.signals = @ + 1]
    /\ UNCHANGED <<ovars, qvars, ta>>

InitTimer == InitQ /\ discipline = "Fifo"

NextTimer ==
    \/ \E dur \in 1..MaxDur, err \in BOOLEAN : TimerStart(dur, err)
    \/ Tick
    \/ TimerElapsed
    \/ TimerPause
    \/ TimerResume

SpecTimer == InitTimer /\ [][NextTimer]_vars

(***************************************************************************)
(* Properties.                                                             *)
(***************************************************************************)
MutateReturned == pc = "idle" /\ ret.op = "Mutate"

\* C1: whenever Mutate returns an error, at whatever step, the receiver's
\* Body, Meta.Tags, Meta.Class and PendingReview are what they were before
\* the call.
C1_MutateAllOrNothing ==
    (MutateReturned /\ ret.err) =>
        /\ obj.Body = pre.Body
        /\ obj.Meta.Tags = pre.Meta.Tags
        /\ obj.Meta.Class = pre.Meta.Class
        /\ obj.PendingReview = pre.PendingReview

\* Mutate failed in the final Unmarshal of a rewritten file, on a receiver
\* that had a body, tags and the pending_review flag
C1_Witness ==
    /\ MutateReturned /\ ret.err /\ ret.step = "unmarshal"
    /\ arg.shape = "doc"
    /\ pre.PendingReview /\ pre.Body # <<>> /\ pre.Meta.Tags.elems # <<>>

\* C2: once Mutate has returned, with success or with an error at any step
\* after the temporary file was created, that file no longer exists.
C2_TempFileRemoved == MutateReturned => ~tmp.exists

\* what fn left in the temporary file, from the history of the call
LeftInFile == IF arg.shape = "keep" THEN Marshal(pre, encFails).b ELSE Render(arg)

\* C3: when every step of Mutate succeeds, the receiver's Body, Meta.Tags
\* and PendingReview are those Unmarshal gives for the full content fn left
\* in the temporary file, and Mutate returns no error.
C3_MutateReadsBack ==
    (MutateReturned /\ ~ret.err) =>
        /\ arg.shape \in {"keep", "doc", "midline"}
        /\ LET u == Unmarshal(pre, LeftInFile)
           IN  /\ ~u.err
               /\ obj.Body = u.obj.Body
               /\ obj.Meta.Tags = u.obj.Meta.Tags
               /\ obj.PendingReview = u.obj.PendingReview

\* Mutate succeeded on a file that fn rewrote with other tags, another
\* body without a final newline and another pending_review
C3_Witness ==
    /\ MutateReturned /\ ~ret.err
    /\ arg.shape = "doc" /\ arg.trail = 0
    /\ obj.Body # pre.Body /\ obj.Meta.Tags # pre.Meta.Tags
    /\ obj.PendingReview # pre.PendingReview

EndsWithNewline(b) == b # <<>> /\ b[Len(b)] = "\n"

RoundTripped == ret.op = "Unmarshal" /\ ret.step = "roundtrip"

\* C4: for every Thought D of class "thought" with any tags, any
\* pending_review and a body that does not end in a newline,
\* NewThought().Unmarshal(D.Marshal()) succeeds and yields D's class, tags,
\* pending_review and body.
C4_RoundTrip ==
    (RoundTripped /\ ~EndsWithNewline(pre.Body)) =>
        /\ ~ret.err
        /\ obj.Meta.Class = pre.Meta.Class
        /\ obj.Meta.Tags = pre.Meta.Tags
        /\ obj.PendingReview = pre.PendingReview
        /\ obj.Body = pre.Body

\* the header Marshal is to produce: class, tags, pending_review, in that
\* order, each on its own line or lines
HeaderInOrder(o) ==
    K_class \o <<":", " ">> \o YamlString(o.Meta.Class) \o NL
    \o K_tags \o <<":">> \o YamlStrings(o.Meta.Tags)
    \o K_pending_review \o <<":", " ">> \o YamlBool(o.PendingReview) \o NL

Suffix(s, n) == SubSeq(s, Len(s) - n + 1, Len(s))

BlahThought ==
    [Body |-> B_blah, PendingReview |-> FALSE,
     Meta |-> [Class |-> C_thought, Tags |-> Slice(<<>>)]]

BlahBytes ==
    <<"-", "-", "-", "\n", "c", "l", "a", "s", "s", ":", " ", "t", "h", "o", "u", "g", "h",
      "t", "\n", "t", "a", "g", "s", ":", " ", "[", "]", "\n", "p", "e", "n", "d", "i", "n",
      "g", "_", "r", "e", "v", "i", "e", "w", ":", " ", "f", "a", "l", "s", "e", "\n", "-",
      "-", "-", "\n", "#", " ", "b", "l", "a", "h", " ", "b", "l", "a", "h">>

C7_ClassImmutable ==
    /\ obj.Meta.Class = C_thought
    /\ (pc = "idle" /\ arg \in GoodInputs) =>
          /\ ret.op = "Unmarshal" => ~ret.err
          /\ ret.op = "Mutate" => ret.step \in {"", "fn", "open", "read"}

\* Mutate succeeded on a file whose header names the class journal_entry
C7_Witness ==
    /\ MutateReturned /\ ~ret.err
    /\ arg.class = "journal_entry" /\ arg.tform = "block"
    /\ obj.Meta.Tags = Slice(arg.elems)

\* C8: after a successful Unmarshal, a header whose tags key is null gives
\* an empty tag sequence, and a header listing tags gives exactly those
\* strings in header order, whatever tags the receiver held before.
C8_TagNormalization ==
    (pc = "idle" /\ ret.op = "Unmarshal" /\ ~ret.err /\ arg.shape = "doc" /\ arg.hdr = "map") =>
        /\ arg.tform = "null" => obj.Meta.Tags = Slice(<<>>)
        /\ arg.tform \in {"flow", "block", "indented"} => obj.Meta.Tags = Slice(arg.elems)

\* C9: in every state reached from NewThought() by Unmarshal and Mutate
\* calls, Meta.Tags is a sequence, possibly empty, and never nil.
C9_TagsNeverNil == ~obj.Meta.Tags.isNil

\* the buffers C10 calls malformed
Malformed(d) ==
    \/ d.shape \in {"empty", "nosep", "onesep", "lead", "midline"}
    \/ d.shape = "doc" /\ d.hdr = "invalid"
    \/ d.shape = "doc" /\ d.hdr = "map" /\ d.class \in {"int", "seq"}
    \/ d.shape = "doc" /\ d.hdr = "map" /\ d.tform = "scalar"
    \/ d.shape = "doc" /\ d.hdr = "map" /\ d.pr = "int"

\* C10: Unmarshal returns an error for every malformed buffer: an empty
\* one, one that does not begin with the separator line, one with fewer
\* than two separator lines, one whose header is not key-value markup, and
\* one whose class is not a string, whose tags are not a sequence of
\* strings or whose pending_review is not a boolean.
C10_MalformedRejected ==
    (pc = "idle" /\ ret.op = "Unmarshal" /\ Malformed(arg)) => ret.err

\* C11: whenever Unmarshal returns an error, the receiver's Body,
\* PendingReview, Meta.Tags and Meta.Class are what they were before the
\* call, also when the error is a wrong-typed field that follows
\* correctly-typed fields in the header.
C11_UnmarshalAllOrNothing ==
    (pc = "idle" /\ ret.op = "Unmarshal" /\ ret.err) =>
        /\ obj.Body = pre.Body
        /\ obj.PendingReview = pre.PendingReview
        /\ obj.Meta.Tags = pre.Meta.Tags
        /\ obj.Meta.Class = pre.Meta.Class

\* Unmarshal failed on pending_review: 1, which follows a string class and
\* a list of tags, on a receiver that held another body, other tags and
\* the pending_review flag
C11_Witness ==
    /\ pc = "idle" /\ ret.op = "Unmarshal" /\ ret.err
    /\ arg.shape = "doc" /\ arg.hdr = "map"
    /\ arg.class = "thought" /\ arg.tform = "block" /\ arg.pr = "int"
    /\ pre.PendingReview
    /\ pre.Body \notin {<<>>, arg.text}
    /\ pre.Meta.Tags.elems \notin {<<>>, arg.elems}

\* C12: after every successful Unmarshal, Body is the text that follows the
\* second separator line, without its trailing newlines and otherwise
\* unchanged (blank lines inside it and spaces or tabs at its end are
\* kept); Body never ends with a newline, and it is empty when only
\* newlines follow the header.
C12_BodyTrimmedOfNewlinesOnly ==
    (pc = "idle" /\ ret.op = "Unmarshal" /\ ~ret.err /\ arg.shape = "doc") =>
        /\ obj.Body = arg.text
        /\ ~EndsWithNewline(obj.Body)

\* C13: when the header encoder fails, Marshal returns an error, and a
\* Mutate that got as far as calling Marshal returns that error without
\* writing to the temporary file or calling fn.
C13_MarshalErrorSurfaced ==
    encFails =>
        /\ ret.op = "Marshal" => ret.err
        /\ (ret.op = "Mutate" /\ ret.step \notin {"tempfile", "abs"}) =>
              pc = "idle" /\ ret.err /\ ret.step = "marshal"

\* RunNext of thread t returns after it ran an action
RunReturns(t) == tpc[t] = "deq_req" /\ tpc'[t] = "idle"

\* no offspring so far, and every action was enqueued before the first run
\* returned
PlainDrain ==
    \A k \in 1..Len(hist) : hist[k].kids = <<>> /\ hist[k].made = made

\* C14: under FifoDiscipline, when a1..an were enqueued in that order and
\* none produces offspring, the k-th RunNext call runs ak, each action once,
\* and returns final = false for k < n and final = true for k = n.
C14_FifoOrder ==
    (discipline = "Fifo" /\ PlainDrain) =>
        \A k \in 1..Len(hist) : hist[k].a = k /\ hist[k].final = (k = made)

\* three actions enqueued, then drained by three RunNext calls
C14_Witness ==
    /\ discipline = "Fifo" /\ PlainDrain
    /\ made = MaxActions /\ Len(hist) = MaxActions
    /\ hist[Len(hist)].final

\* C15: when RunNext has run an action whose Run returned offspring, all of
\* them are appended to the end of the pending list in the order returned,
\* with or without an error from Run; after an action that returned one
\* offspring on an otherwise empty list the call reports not final and the
\* list holds that offspring alone.
C15_OffspringRequeued ==
    [][\A t \in Threads :
          RunReturns(t) =>
              /\ actions' = actions \o tcur[t].kids
              /\ (actions = <<>> /\ Len(tcur[t].kids) = 1) =>
                    ~qret'.final /\ actions' = tcur[t].kids]_vars

\* the last call, a RunNext, ran the first of two pending actions, whose
\* Run returned one offspring and an error: the call reported not final,
\* and the offspring is pending behind the other action
C15_Witness ==
    /\ \A t \in Threads : tpc[t] = "idle"
    /\ qret.op = "RunNext" /\ qret.err = errRun /\ ~qret.final
    /\ Len(hist) = 1 /\ Len(hist[1].kids) = 1
    /\ Len(actions) = 2
    /\ actions[2] = hist[1].kids[1]
    /\ actions[1] < hist[1].kids[1]

\* C16: when RunNext has selected and run an action, the error it returns
\* is the one Run returned (nil if none), and final is true exactly when the
\* pending list is empty after the removal and the append of the offspring.
C16_RunNextReturns ==
    [][\A t \in Threads :
          RunReturns(t) =>
              /\ qret'.op = "RunNext"
              /\ qret'.err = tcur[t].err
              /\ qret'.final = (actions' = <<>>)]_vars

\* a RunNext call returned the error of its action together with final
C16_Witness ==
    /\ \A t \in Threads : tpc[t] = "idle"
    /\ qret.op = "RunNext" /\ qret.err = errRun /\ qret.final
    /\ actions = <<>> /\ hist # <<>>

\* RunNext of thread t finds the pending list empty
EmptyCall(t) == tpc[t] = "deq_sel" /\ actions = <<>> /\ tpc'[t] # "deq_sel"

\* C17: RunNext on a queue with no pending action, new or drained, returns
\* the EmptyQueue error and final = false, does not call the discipline,
\* runs no action and leaves the pending list empty.
C17_EmptyQueueError ==
    [][\A t \in Threads :
          EmptyCall(t) =>
              /\ tpc'[t] = "idle"
              /\ qret' = Return(t, "RunNext", FALSE, errDequeueOnEmptyQueue, FALSE)
              /\ actions' = <<>>
              /\ hist' = hist
              /\ made' = made]_vars

\* the last call was a RunNext on a queue that had been filled and drained
C17_Witness ==
    /\ \A t \in Threads : tpc[t] = "idle"
    /\ qret.op = "RunNext" /\ qret.err = errDequeueOnEmptyQueue
    /\ hist # <<>> /\ actions = <<>>

\* RunNext of thread t gets -1 from the discipline for a list that is not
\* empty
NoSelCall(t) ==
    /\ tpc[t] = "deq_sel" /\ tpc'[t] # "deq_sel"
    /\ actions # <<>> /\ Pick(discipline, actions) = -1

\* C18: when the discipline returns -1 for a pending list that is not
\* empty, RunNext returns an error other than EmptyQueue, runs no action and
\* leaves the pending list as it was, the same actions in the same order.
C18_NoSelectableAction ==
    [][\A t \in Threads :
          NoSelCall(t) =>
              /\ tpc'[t] = "idle"
              /\ qret'.op = "RunNext"
              /\ qret'.err \notin {Nil, errDequeueOnEmptyQueue}
              /\ actions' = actions
              /\ hist' = hist
              /\ made' = made]_vars

\* RunNext returned the error on a queue whose discipline never picks and
\* that holds two actions
C18_Witness ==
    /\ \A t \in Threads : tpc[t] = "idle"
    /\ qret.op = "RunNext" /\ qret.err = errUnableToPick
    /\ discipline = "Never" /\ Len(actions) >= 2

\* the actions that are being run
Running ==
    { tcur[t].a : t \in { u \in Threads : tpc[u] \in {"deq_run", "deq_req", "deq_nested"} } }

\* C19: with several threads calling RunNext and Enqueue, at most one
\* thread is between Lock and Unlock at any moment, so at most one action is
\* executing and the steps of two RunNext calls do not interleave; and no
\* action is run by more than one RunNext call.
C19_MutualExclusion ==
    /\ \A t, u \in Threads : (tpc[t] # "idle" /\ tpc[u] # "idle") => t = u
    /\ \A t \in Threads : tpc[t] # "idle" => mu = t
    /\ \A j, k \in 1..Len(hist) : hist[j].a = hist[k].a => j = k
    /\ \A k \in 1..Len(hist) : hist[k].a \notin Running

\* an action is executing in one thread after another thread's RunNext ran
\* an action, with a third action pending
C19_Witness ==
    \E t \in Threads :
        /\ tpc[t] = "deq_run"
        /\ qret.t # t /\ qret.op = "RunNext" /\ qret.err = Nil
        /\ hist # <<>> /\ actions # <<>>

\* Enqueue of thread t returns
EnqReturns(t) == tpc[t] = "enq_app" /\ tpc'[t] = "idle"

\* how often the action x occurs in the sequence s
Count(s, x) == Cardinality({ i \in 1..Len(s) : s[i] = x })

\* where the action x is: pending, in the hands of an Enqueue or RunNext
\* call, among the offspring Run has just returned, or run
Occurrences(x) ==
    Count(actions, x)
    + Cardinality({ t \in Threads : tpc[t] \in {"enq_app", "deq_run", "deq_req", "deq_nested"}
                                     /\ tcur[t].a = x })
    + Cardinality({ t \in Threads : tpc[t] = "deq_req" /\ Count(tcur[t].kids, x) > 0 })
    + Cardinality({ k \in 1..Len(hist) : hist[k].a = x })

\* every action made is in one place, once
Conserved == \A x \in 1..made : Occurrences(x) = 1

\* C20: Enqueue appends its action to the end of the pending list and
\* changes nothing else; with Enqueue called from several threads no action
\* is lost or duplicated, every enqueued action is pending exactly once
\* until a RunNext takes it out.
C20_EnqueueAppends ==
    [][/\ \A t \in Threads :
             EnqReturns(t) =>
                 /\ actions' = Append(actions, tcur[t].a)
                 /\ hist' = hist
                 /\ discipline' = discipline
       /\ Conserved']_vars

\* a thread is in Enqueue right after the Enqueue of another thread
\* returned, with every action enqueued so far pending
C20_Witness ==
    \E t \in Threads :
        /\ tpc[t] = "enq_app"
        /\ qret.t \in Threads \ {t} /\ qret.op = "Enqueue"
        /\ hist = <<>>
        /\ Len(actions) = made - 1
        /\ Len(actions) >= 2

\* RunNext of thread t takes an action out of the pending list and runs it
SelectStep(t) == tpc[t] = "deq_sel" /\ tpc'[t] = "deq_run"

\* the sequence s without its element at the Go index i
WithoutIndex(s, i) == [j \in 1..(Len(s) - 1) |-> IF j <= i THEN s[j] ELSE s[j + 1]]

\* C21: a RunNext call asks the discipline about the pending list as it is
\* at that call; for the index i it returns, 0 <= i < length, the call
\* removes the action at index i and no other, runs that action, and the
\* other pending actions keep their order.
C21_SelectedActionRemoved ==
    [][\A t \in Threads :
          SelectStep(t) =>
              LET i == Pick(discipline, actions)
              IN  /\ i \in 0..(Len(actions) - 1)
                  /\ tcur'[t].a = actions[i + 1]
                  /\ actions' = WithoutIndex(actions, i)
                  /\ hist' = hist]_vars

\* a discipline that picks the newest action: the third of three pending
\* actions is running and the two older ones are pending in their order
C21_Witness ==
    \E t \in Threads :
        /\ tpc[t] = "deq_run"
        /\ discipline = "Newest"
        /\ Len(actions) = 2
        /\ actions[1] < actions[2] /\ actions[2] < tcur[t].a

\* C27: when the Run of an action calls Enqueue or RunNext on the queue
\* that runs it, that call stays in Lock for ever: Run does not return, the
\* RunNext that runs it does not complete and keeps the mutex, and no
\* Enqueue or RunNext of any thread gets past Lock or returns any more.
C27_ReentrantCallBlocks ==
    [][(\E t \in Threads : tpc[t] = "deq_nested") =>
          /\ tpc' = tpc
          /\ mu' = mu
          /\ actions' = actions
          /\ qret' = qret
          /\ hist' = hist]_vars

\* an action that was picked with another one pending has called the queue
\* from its Run
C27_Witness ==
    \E t \in Threads :
        /\ tpc[t] = "deq_nested" /\ mu = t
        /\ actions # <<>>
        /\ \A u \in Threads \ {t} : tpc[u] = "idle"

\* no action was made between two runs other than their offspring, and none
\* is being enqueued
NoEnqueueSinceFirstRun ==
    /\ \A k \in 2..Len(hist) : hist[k].made = hist[k - 1].made + Len(hist[k].kids)
    /\ \A t \in Threads : tpc[t] # "enq_app"
    /\ \/ \E t \in Threads :
             tpc[t] = "deq_req" /\ made = hist[Len(hist)].made + Len(tcur[t].kids)
       \/ (\A t \in Threads : tpc[t] # "deq_req") /\ made = hist[Len(hist)].made

\* C28: under FifoDiscipline, with no Enqueue once the draining has begun
\* and N actions in all, offspring included, the actions run in the order
\* they entered the list, each once, so offspring run after everything that
\* was pending when their parent ran; the N-th RunNext call is the first to
\* return final = true, and after it the list is empty, so the next RunNext
\* returns the EmptyQueue error.
C28_DrainRunsAllOnce ==
    (discipline = "Fifo" /\ hist # <<>> /\ NoEnqueueSinceFirstRun) =>
        /\ \A k \in 1..Len(hist) : hist[k].a = k
        /\ \A k \in 1..Len(hist) : hist[k].final = (k = hist[k].made)
        /\ hist[Len(hist)].final =>
              /\ Len(hist) = made
              /\ actions = <<>>
              /\ Select(actions, discipline).err = errDequeueOnEmptyQueue

\* two actions were enqueued, the first returned an offspring, three
\* RunNext calls drained the queue and a fourth returned the EmptyQueue error
C28_Witness ==
    /\ discipline = "Fifo" /\ hist # <<>> /\ NoEnqueueSinceFirstRun
    /\ \A t \in Threads : tpc[t] = "idle"
    /\ Len(hist) = MaxActions /\ hist[Len(hist)].final
    /\ hist[1].kids # <<>> /\ hist[1].made - Len(hist[1].kids) >= 2
    /\ qret.op = "RunNext" /\ qret.err = errDequeueOnEmptyQueue

\* C22: in every Mutate call the transform runs once, after the whole
\* Marshal output of the receiver's pre-call state is in the temporary file
\* and before anything is read back; when the transform returns an error,
\* Mutate returns that error and the receiver is what it was, the file
\* neither read nor unmarshaled.
C22_MutateProtocol ==
    [][ /\ pc' = "fn" =>
             /\ pc = "idle"
             /\ tmp' = File(Marshal(obj, encFails).b)
             /\ obj' = obj /\ pre' = obj
        /\ pc = "fn" => pc' = "fnret" /\ obj' = obj
        /\ pc = "fnret" => pc' = "idle"
        /\ (pc = "fnret" /\ fnErr) => (ret' = Ret("Mutate", TRUE, "fn") /\ obj' = obj)
      ]_vars

\* a Mutate whose transform wrote a document that Unmarshal would accept
\* and that differs from the receiver, and then returned an error
C22_Witness ==
    /\ MutateReturned /\ ret = Ret("Mutate", TRUE, "fn")
    /\ arg.shape = "doc"
    /\ LET r == Unmarshal(pre, Render(arg)) IN ~r.err /\ r.obj # pre
    /\ obj = pre

\* Thoughts of o's class that differ from o in Body, Tags and PendingReview
OtherReceivers(o) ==
    { [Body |-> b, PendingReview |-> ~o.PendingReview,
       Meta |-> [Class |-> o.Meta.Class, Tags |-> Slice(t)]] :
        b \in {B_blah \o o.Body, <<"x">> \o o.Body},
        t \in {<<T_one>> \o o.Meta.Tags.elems} }

\* C24: Unmarshal of the same bytes into another Thought of the same class,
\* holding a different Body, Tags and PendingReview, fails when this one
\* failed and succeeds when this one succeeded, and after success both hold
\* the same Body, Tags and PendingReview.
C24_UnmarshalIndependentOfReceiver ==
    (pc = "idle" /\ ret.op = "Unmarshal") =>
        \A o2 \in OtherReceivers(pre) :
            LET r == Unmarshal(o2, Render(arg))
            IN  /\ r.err = ret.err
                /\ ~ret.err =>
                      /\ r.obj.Body = obj.Body
                      /\ r.obj.Meta.Tags = obj.Meta.Tags
                      /\ r.obj.PendingReview = obj.PendingReview

\* a successful Unmarshal of a document without a body into a receiver
\* that held a body, tags and the review flag
C24_Witness ==
    /\ pc = "idle" /\ ret.op = "Unmarshal" /\ ~ret.err
    /\ pre.Body # <<>> /\ pre.Meta.Tags.elems # <<>> /\ pre.PendingReview
    /\ obj.Body = <<>> /\ obj.Meta.Tags.elems = <<>> /\ ~obj.PendingReview

\* C23: after a successful Unmarshal of a document, PendingReview is the
\* header's pending_review value, and false when the header has no such
\* field, whatever the receiver held before; Bucket() follows it.
C23_PendingReviewFromHeader ==
    (pc = "idle" /\ ret.op = "Unmarshal" /\ ~ret.err
        /\ arg.shape = "doc" /\ arg.hdr = "map" /\ arg.pr \in {"true", "false", "absent"}) =>
        /\ obj.PendingReview = (arg.pr = "true")
        /\ Bucket(obj) = IF arg.pr = "true" THEN "to_review" ELSE ""

\* C26: a Mutate whose transform leaves the file as Mutate wrote it and
\* returns nil succeeds, and the receiver's class, tags, pending_review and
\* body are what they were before the call (a nil and an empty tag
\* sequence count as equal).
C26_IdentityMutate ==
    (MutateReturned /\ arg.shape = "keep" /\ ret.step \notin {"fn", "open", "read"}) =>
        /\ ~ret.err
        /\ obj.Meta.Class = pre.Meta.Class
        /\ obj.Meta.Tags.elems = pre.Meta.Tags.elems
        /\ obj.PendingReview = pre.PendingReview
        /\ obj.Body = pre.Body

C29_PausedTimeNotCounted == tm.pc = "elapsed" => tm.ran >= tm.dur

====
